---- MODULE Spec2Model ----
(***************************************************************************)
(* The video worker (src/worker.py): one run of the worker process fetches *)
(* a job descriptor, downloads the job's assets into a working directory,  *)
(* builds one encoder command, runs it, uploads the result and removes the *)
(* job's input objects.  Storage, the local file system and the encoder    *)
(* are collaborators whose calls can fail.                                 *)
(***************************************************************************)
EXTENDS Integers, Sequences, FiniteSets, TLC

VARIABLES
    job,        \* run -> the job descriptor the run was handed (job_data)
    pc,         \* run -> the statement the run executes next
    idx,        \* run -> 1-based position of the download loop in scenes
    dirs,       \* local directories that exist (the worker's cwd is shared)
    files,      \* local file path -> content
    bucket,     \* storage key -> content
    log,        \* run -> the collaborator calls made so far, with outcomes
    reported,   \* run -> the success line of line 105 has been printed
    raised,     \* run -> the except clause (line 115) has been entered
    exitStatus, \* run -> process exit status once exited, NotExited before
    ffmpeg_cmd, \* run -> the encoder command the run built, NoCmd before
    objects_to_delete, \* run -> the keys the listing of line 109 returned
    \* The encoder at work on one command (the filter graph of lines 52-98):
    scene_durations, \* the duration of each scene of the job, in ms
    filter_chains,   \* per scene, the parameters the filter chains carry
    bg_music,        \* the length of the music track in ms, Absent without
    enc,             \* the encoder's position in the graph it executes
    \* One caption on its way to the screen (lines 59-60, 76):
    dialogue_text,   \* scene.get('line', ''), a sequence of characters
    safe_caption,    \* the sanitized caption, NotBuilt before line 60
    shown_text,      \* what the overlay shows, NotDrawn before it is drawn
    \* One request to /generate-video (src/app.py, lines 126-188):
    form,            \* the request: its number of scenes, with music or not
    fpc,             \* the handler's position
    scene_no,        \* the index of the scene asset being uploaded
    image_url,       \* what upload_to_s3 returned for the scene's image
    scene_urls,      \* the scenes of the descriptor so far
    bg_music_url,    \* what upload_to_s3 returned for the music, or None
    job_data,        \* the descriptor the handler wrote, Absent before
    failed,          \* the keys whose upload failed
    dispatched,      \* the job ids the dispatch request was accepted for
    response         \* the handler's response, NoResponse before

procvars == <<job, pc, idx, dirs, files, bucket, log, reported, raised,
              exitStatus, ffmpeg_cmd, objects_to_delete>>
encvars == <<scene_durations, filter_chains, bg_music, enc>>
capvars == <<dialogue_text, safe_caption, shown_text>>
frontvars == <<form, fpc, scene_no, image_url, scene_urls, bg_music_url,
               job_data, failed, dispatched, response>>
\* The worker's state other than the storage.
workervars == <<job, pc, idx, dirs, files, log, reported, raised, exitStatus,
                ffmpeg_cmd, objects_to_delete>>
vars == <<procvars, encvars, capvars, frontvars>>

----------------------------------------------------------------------------
\* Bounds of the model: the longest scene list of a single run, and of
\* each of two overlapping runs.
MaxScenes == 2
MaxPairScenes == 1

\* An optional field of the descriptor: absent, or present with a value.
Absent == <<>>
Some(value) == <<value>>

\* dict.get(field, default)
Get(field, default) == IF field = Absent THEN default ELSE field[1]

\* Process exit statuses (sys.exit(1); a normal return exits with 0).
NotExited == "running"
ExitSuccess == "exit 0"
ExitFailure == "exit 1"

\* The identifier the front end gave the job of run r (a fresh uuid4 each).
FrontEndId(r) == "job" \o ToString(r)

\* A storage key or a local path: the part before the last "/" and the
\* part after it (os.path.basename, os.path.join).
Path(dir, base) == [dir |-> dir, base |-> base]
Basename(key) == key.base

\* Storage keys as the front end writes them.
InputPrefix(id) == "jobs/" \o id \o "/input"
SceneImageKey(id, i) == Path(InputPrefix(id), "scene_" \o ToString(i) \o ".png")
SceneAudioKey(id, i) == Path(InputPrefix(id), "scene_" \o ToString(i) \o ".mp3")
MusicKey(id) == Path(InputPrefix(id), "bg_music.mp3")
JobKey(id) == Path("jobs/" \o id, "job.json")

\* The command before it is built.
NoCmd == [inputs |-> <<>>, n |-> 0, music |-> FALSE, out |-> Path("", ""),
          chains |-> <<>>,
          concat |-> [n |-> 0, video |-> <<>>, audio |-> <<>>],
          mix |-> Absent, map_audio |-> ""]

\* Content of an object: what the front end stored under the key.
Original(key) == key.dir \o "/" \o key.base
\* Content of the file the encoder of run r writes.
Encoded(r) == "video-of-run-" \o ToString(r)
\* Content of a file that was in the working directory before the run.
Stray == "stray-file"

\* urlparse(url).path.lstrip('/'): the key of an asset URL.
UrlKey(url) == url.path

\* job_id = job_data.get('job_id', 'unknown-job')
JobId(r) == Get(job[r].job_id, "unknown-job")
\* input_dir, output_dir
InputDir(r) == "./" \o JobId(r) \o "_input"
OutputDir(r) == "./" \o JobId(r) \o "_output"
\* scenes = job_data.get('scenes', [])
Scenes(r) == Get(job[r].scenes, <<>>)
HasMusic(r) == job[r].background_music_url # Absent
\* scene['local_image_path'], scene['local_audio_path']
LocalImagePath(r, i) == Path(InputDir(r), Basename(UrlKey(Scenes(r)[i].image_url)))
LocalAudioPath(r, i) == Path(InputDir(r), Basename(UrlKey(Scenes(r)[i].audio_url)))
LocalBgMusicPath(r) == Path(InputDir(r), "bg_music.mp3")
\* final_video_path, final_video_key
FinalVideoPath(r) == Path(OutputDir(r), "final_video.mp4")
FinalVideoKey(r) == Path("jobs/" \o JobId(r) \o "/output", "final_video.mp4")

Runs == DOMAIN job

----------------------------------------------------------------------------
\* The descriptors the front end writes for run r: n scenes whose assets
\* are under the job's input prefix, with or without music, and (for a
\* descriptor written by hand) with or without the job_id field.
SceneOf(id, i) ==
    [image_url |-> [host |-> "bucket", path |-> SceneImageKey(id, i)],
     audio_url |-> [host |-> "bucket", path |-> SceneAudioKey(id, i)]]

\* caption_settings as a dictionary of three optional entries; a
\* descriptor without caption_settings reads as the empty dictionary
\* (job_data.get('caption_settings', {}), line 50).
CaptionSettings(position, size, color) ==
    [position |-> position, size |-> size, color |-> color]
NoCaptionSettings == CaptionSettings(Absent, Absent, Absent)

\* The settings a form can carry: each entry left out or filled in.
LargeSize == 50
CaptionChoices ==
    {CaptionSettings(position, size, color) :
        position \in {Absent, Some("top"), Some("middle"), Some("bottom")},
        size \in {Absent, Some(LargeSize)},
        color \in {Absent, Some("#FF0000")}}

Descriptor(r, withId, n, music) ==
    [caption_settings |-> NoCaptionSettings,
     job_id |-> IF withId THEN Some(FrontEndId(r)) ELSE Absent,
     scenes |-> IF n < 0 THEN Absent
                ELSE Some([i \in 1..n |-> SceneOf(FrontEndId(r), i - 1)]),
     background_music_url |->
        IF music THEN Some([host |-> "bucket", path |-> MusicKey(FrontEndId(r))])
                 ELSE Absent]

\* n = -1 stands for a descriptor without the scenes field.
Descriptors(r, maxN) ==
    {Descriptor(r, withId, n, music) :
        withId \in BOOLEAN, n \in (-1)..maxN, music \in BOOLEAN}

\* Everything the front end stored for the job of run r.
StoredFor(r, d) ==
    {JobKey(FrontEndId(r))}
    \cup {UrlKey(Get(d.scenes, <<>>)[i].image_url) : i \in DOMAIN Get(d.scenes, <<>>)}
    \cup {UrlKey(Get(d.scenes, <<>>)[i].audio_url) : i \in DOMAIN Get(d.scenes, <<>>)}
    \cup (IF d.background_music_url = Absent THEN {}
          ELSE {UrlKey(d.background_music_url[1])})

\* The descriptors of Descriptors(r, maxN) with every choice of caption
\* settings.
Captioned(r, maxN) ==
    {[d EXCEPT !.caption_settings = s] : d \in Descriptors(r, maxN), s \in CaptionChoices}

\* The runs rs before their first statement; the storage holds what the
\* front end stored for their jobs.
InitRuns(rs) ==
    /\ pc = [r \in rs |-> "fetch"]
    /\ idx = [r \in rs |-> 1]
    /\ dirs = {}
    /\ \E stray \in BOOLEAN :
         LET strayPaths == IF stray THEN {FinalVideoKey(r) : r \in rs} ELSE {}
         IN  files = [p \in strayPaths |-> Stray]
    /\ LET keys == UNION {StoredFor(r, job[r]) : r \in rs}
       IN  bucket = [k \in keys |-> Original(k)]
    /\ log = [r \in rs |-> <<>>]
    /\ reported = [r \in rs |-> FALSE]
    /\ raised = [r \in rs |-> FALSE]
    /\ exitStatus = [r \in rs |-> NotExited]
    /\ ffmpeg_cmd = [r \in rs |-> NoCmd]
    /\ objects_to_delete = [r \in rs |-> {}]

InitOver(rs, maxN) ==
    /\ job \in [rs -> UNION {Descriptors(r, maxN) : r \in rs}]
    /\ \A r \in rs : job[r] \in Descriptors(r, maxN)
    /\ InitRuns(rs)

InitCaptioned(rs, maxN) ==
    /\ job \in [rs -> UNION {Captioned(r, maxN) : r \in rs}]
    /\ \A r \in rs : job[r] \in Captioned(r, maxN)
    /\ InitRuns(rs)

\* Descriptors whose asset URLs are anywhere in the bucket: objects of one
\* file name under two prefixes, and an object named like the music file.
MaxAssetScenes == 2
AssetKeys(id) ==
    {Path(InputPrefix(id), "clip.png"),
     Path(InputPrefix(id) \o "/alt", "clip.png"),
     Path(InputPrefix(id), "bg_music.mp3")}
AssetUrls(id) == {[host |-> "bucket", path |-> k] : k \in AssetKeys(id)}

AssetDescriptors(r, maxN) ==
    {[Descriptor(r, TRUE, 0, music) EXCEPT !.scenes = Some(scenes)] :
        music \in BOOLEAN,
        scenes \in UNION {[1..n -> [image_url : AssetUrls(FrontEndId(r)),
                                    audio_url : AssetUrls(FrontEndId(r))]] :
                             n \in 1..maxN}}

InitAssetJob ==
    /\ job \in [{1} -> AssetDescriptors(1, MaxAssetScenes)]
    /\ InitRuns({1})

----------------------------------------------------------------------------
\* Helpers on the state.
Logged(r, op, i, outcome) ==
    log' = [log EXCEPT ![r] = Append(@, [op |-> op, i |-> i, outcome |-> outcome])]

Goto(r, label) == pc' = [pc EXCEPT ![r] = label]

\* shutil.rmtree(dir): the directory and every file under it.
RmTree(dir) ==
    /\ dirs' = dirs \ {dir}
    /\ files' = [p \in {q \in DOMAIN files : q.dir # dir} |-> files[p]]

\* A write of content c at local path p.
WriteFile(p, c) == files' = [q \in DOMAIN files \cup {p} |-> IF q = p THEN c ELSE files[q]]

\* The outcomes of a collaborator call.
Outcomes == {"ok", "error"}

\* A handler that still clears the job's inputs when the upload failed.
AfterFailureCleanup(label) == IF label = "upload" THEN "list" ELSE "except"

\* A handler that runs the failed statement again.
AfterFailureRetry(label) == label

\* The statement an exception raised inside the try block leads to
\* (except Exception, line 115).
AfterFailure(label) == "except"

\* A download loop that goes straight on to the encoder.
AfterScenesNoMusic(r) == "encode"

\* The first statement of the try block after the download loop.
AfterScenes(r) == IF HasMusic(r) THEN "dl_music" ELSE "encode"
AfterClient(r) == IF Len(Scenes(r)) = 0 THEN AfterScenes(r) ELSE "dl_image"

\* The local file line 104 hands to upload_file as its Filename argument.
UploadSource(r) == FinalVideoKey(r)

\* The keys list_objects_v2 returns for Prefix = jobs/{job_id}/input/.
Listing(r) == {k \in DOMAIN bucket : k.dir = InputPrefix(JobId(r))}

\* inputs (lines 54-55) and the music input (line 88), in command order.
RECURSIVE SceneInputs(_, _)
SceneInputs(r, i) ==
    IF i > Len(Scenes(r)) THEN <<>>
    ELSE <<LocalImagePath(r, i), LocalAudioPath(r, i)>> \o SceneInputs(r, i + 1)

\* The inputs the chains of the scene with (zero-based) index i read:
\* [{i*2}:v] of line 73 and [{i*2+1}:a] of line 77.
ChainInputs(i) == [video_in |-> i * 2, audio_in |-> i * 2 + 1]

\* The labels the chains of scene i end in (lines 56-57, 76-77).
VideoLabel(i) == "v" \o ToString(i)
AudioLabel(i) == "a" \o ToString(i)

\* y_pos_map and its lookup, lines 63-65.
NearTop == "20"
Centred == "(h-text_h)/2"
NearBottom == "(h-text_h)-20"

\* A position table with top and bottom exchanged.
YPosInverted(position) ==
    CASE position = "bottom" -> NearTop
      [] position = "middle" -> Centred
      [] position = "top" -> NearBottom
      [] OTHER -> NearBottom

\* y_pos_map.get(position, "(h-text_h)-20")
YPos(position) ==
    CASE position = "bottom" -> NearBottom
      [] position = "middle" -> Centred
      [] position = "top" -> NearTop
      [] OTHER -> NearBottom

\* The options of the drawtext filter that come from the settings
\* (lines 65-67, 76).
DefaultFontSize == 35
DefaultFontColor == "#FFFFFF"
Drawtext(settings) ==
    [fontsize  |-> Get(settings.size, DefaultFontSize),
     fontcolor |-> Get(settings.color, DefaultFontColor),
     x         |-> "(w-tw)/2",
     y         |-> YPos(Get(settings.position, "bottom"))]

\* One iteration of the loop of lines 52-78, for the scene with
\* (zero-based) index i.
SceneGraph(r, i) ==
    [video_in |-> ChainInputs(i).video_in,
     audio_in |-> ChainInputs(i).audio_in,
     v_out    |-> VideoLabel(i),
     a_out    |-> AudioLabel(i),
     drawtext |-> Drawtext(job[r].caption_settings)]

\* The two concat filters of lines 81-82, over video_concat_streams and
\* audio_concat_streams.
Concat(r) ==
    [n     |-> Len(Scenes(r)),
     video |-> [i \in 1..Len(Scenes(r)) |-> VideoLabel(i - 1)],
     audio |-> [i \in 1..Len(Scenes(r)) |-> AudioLabel(i - 1)]]

\* An amix left at its default policy.
AmixDurationLongest == "longest"

\* The music chains of lines 89-91: volume=0.2 (in thousandths) and
\* amix=inputs=2:duration=first.
MusicVolume == 200
AmixDuration == "first"
Mix(r) ==
    [music_in |-> Len(Scenes(r)) * 2, volume |-> MusicVolume,
     duration |-> AmixDuration]

\* ffmpeg_cmd as lines 52-98 build it.
BuildCommand(r) ==
    [inputs |-> SceneInputs(r, 1) \o
                (IF HasMusic(r) THEN <<LocalBgMusicPath(r)>> ELSE <<>>),
     n      |-> Len(Scenes(r)),
     music  |-> HasMusic(r),
     out    |-> FinalVideoPath(r),
     chains |-> [i \in 1..Len(Scenes(r)) |-> SceneGraph(r, i - 1)],
     concat |-> Concat(r),
     mix    |-> IF HasMusic(r) THEN Some(Mix(r)) ELSE Absent,
     map_audio |-> IF HasMusic(r) THEN "[outa]" ELSE "[maina]"]

\* The encoder can only exit with status zero when it could read every
\* input and create its output file.
Encodable(cmd) ==
    /\ \A k \in DOMAIN cmd.inputs : cmd.inputs[k] \in DOMAIN files
    /\ cmd.out.dir \in dirs

----------------------------------------------------------------------------
\* __main__, lines 133-146: fetch the descriptor; any exception leaves the
\* process through sys.exit(1) of line 146.
Fetch(r) ==
    /\ pc[r] = "fetch"
    /\ \E o \in Outcomes :
         /\ Logged(r, "fetch", 0, o)
         /\ IF o = "ok" /\ JobKey(FrontEndId(r)) \in DOMAIN bucket
            THEN Goto(r, "makedirs_in") /\ UNCHANGED exitStatus
            ELSE /\ Goto(r, "exited")
                 /\ exitStatus' = [exitStatus EXCEPT ![r] = ExitFailure]
    /\ UNCHANGED <<job, idx, dirs, files, bucket, reported, raised,
                   ffmpeg_cmd, objects_to_delete>>

\* Line 24: os.makedirs(input_dir, exist_ok=True)
MakeInputDir(r) ==
    /\ pc[r] = "makedirs_in"
    /\ dirs' = dirs \cup {InputDir(r)}
    /\ Goto(r, "makedirs_out")
    /\ UNCHANGED <<job, idx, files, bucket, log, reported, raised,
                   exitStatus, ffmpeg_cmd, objects_to_delete>>

\* Line 25: os.makedirs(output_dir, exist_ok=True)
MakeOutputDir(r) ==
    /\ pc[r] = "makedirs_out"
    /\ dirs' = dirs \cup {OutputDir(r)}
    /\ Goto(r, "client")
    /\ UNCHANGED <<job, idx, files, bucket, log, reported, raised,
                   exitStatus, ffmpeg_cmd, objects_to_delete>>

\* Line 27: boto3.client(...), before the try statement: an exception here
\* leaves process_job at once and reaches the handler of line 144.
CreateClient(r) ==
    /\ pc[r] = "client"
    /\ \E o \in Outcomes :
         /\ Logged(r, "client", 0, o)
         /\ IF o = "ok"
            THEN Goto(r, AfterClient(r)) /\ UNCHANGED exitStatus
            ELSE /\ Goto(r, "exited")
                 /\ exitStatus' = [exitStatus EXCEPT ![r] = ExitFailure]
    /\ UNCHANGED <<job, idx, dirs, files, bucket, reported, raised,
                   ffmpeg_cmd, objects_to_delete>>

\* s3.download_file(bucket, key, path): the object must exist, storage must
\* answer, and the directory of path must exist.
Download(r, label, op, i, key, path, next) ==
    /\ pc[r] = label
    /\ \E o \in Outcomes :
         LET outcome == IF key \notin DOMAIN bucket THEN "error"
                        ELSE IF o = "ok" /\ path.dir \notin dirs THEN "nodir"
                        ELSE o
         IN  /\ Logged(r, op, i, outcome)
             /\ IF outcome = "ok"
                THEN WriteFile(path, bucket[key]) /\ Goto(r, next)
                ELSE UNCHANGED files /\ Goto(r, AfterFailure(label))
    /\ UNCHANGED <<job, dirs, bucket, reported, raised, exitStatus,
                   ffmpeg_cmd, objects_to_delete>>

\* Lines 33, 35, 37
DownloadImage(r) ==
    /\ pc[r] = "dl_image"
    /\ Download(r, "dl_image", "download_image", idx[r],
                UrlKey(Scenes(r)[idx[r]].image_url), LocalImagePath(r, idx[r]),
                "dl_audio")
    /\ UNCHANGED idx

\* Lines 34, 36, 38, and the loop of line 32
DownloadAudio(r) ==
    /\ pc[r] = "dl_audio"
    /\ Download(r, "dl_audio", "download_audio", idx[r],
                UrlKey(Scenes(r)[idx[r]].audio_url), LocalAudioPath(r, idx[r]),
                IF idx[r] < Len(Scenes(r)) THEN "dl_image" ELSE AfterScenes(r))
    /\ idx' = [idx EXCEPT ![r] = IF pc'[r] = "dl_image" THEN @ + 1 ELSE @]

\* Lines 41-44
DownloadMusic(r) ==
    /\ pc[r] = "dl_music"
    /\ Download(r, "dl_music", "download_music", 0,
                UrlKey(job[r].background_music_url[1]), LocalBgMusicPath(r),
                "encode")
    /\ UNCHANGED idx

\* Lines 48-100: build the command and run the encoder (check=True).
Encode(r) ==
    /\ pc[r] = "encode"
    /\ ffmpeg_cmd' = [ffmpeg_cmd EXCEPT ![r] = BuildCommand(r)]
    /\ \E o \in Outcomes :
         LET outcome == IF Encodable(BuildCommand(r)) THEN o ELSE "error"
         IN  /\ Logged(r, "encode", 0, outcome)
             /\ IF outcome = "ok"
                THEN WriteFile(FinalVideoPath(r), Encoded(r)) /\ Goto(r, "upload")
                ELSE UNCHANGED files /\ Goto(r, AfterFailure("encode"))
    /\ UNCHANGED <<job, idx, dirs, bucket, reported, raised, exitStatus,
                   objects_to_delete>>

\* Lines 103-105: upload_file(Filename, Bucket, Key) reads the local file
\* Filename, and the success line follows.
Upload(r) ==
    /\ pc[r] = "upload"
    /\ \E o \in Outcomes :
         LET outcome == IF UploadSource(r) \notin DOMAIN files THEN "nofile" ELSE o
         IN  /\ Logged(r, "upload", 0, outcome)
             /\ IF outcome = "ok"
                THEN /\ bucket' = [k \in DOMAIN bucket \cup {FinalVideoKey(r)} |->
                                     IF k = FinalVideoKey(r)
                                     THEN files[UploadSource(r)] ELSE bucket[k]]
                     /\ reported' = [reported EXCEPT ![r] = TRUE]
                     /\ Goto(r, "list")
                ELSE /\ UNCHANGED <<bucket, reported>>
                     /\ Goto(r, AfterFailure("upload"))
    /\ UNCHANGED <<job, idx, dirs, files, raised, exitStatus, ffmpeg_cmd,
                   objects_to_delete>>

\* Lines 108-111: list the job's input objects.
ListInputs(r) ==
    /\ pc[r] = "list"
    /\ \E o \in Outcomes :
         /\ Logged(r, "list", 0, o)
         /\ IF o = "ok"
            THEN /\ objects_to_delete' = [objects_to_delete EXCEPT ![r] = Listing(r)]
                 /\ Goto(r, IF Listing(r) # {} THEN "delete" ELSE "rm_in")
            ELSE /\ UNCHANGED objects_to_delete
                 /\ Goto(r, AfterFailure("list"))
    /\ UNCHANGED <<job, idx, dirs, files, bucket, reported, raised,
                   exitStatus, ffmpeg_cmd>>

\* Line 112: delete the listed objects.
DeleteInputs(r) ==
    /\ pc[r] = "delete"
    /\ \E o \in Outcomes :
         /\ Logged(r, "delete", 0, o)
         /\ IF o = "ok"
            THEN /\ bucket' = [k \in DOMAIN bucket \ objects_to_delete[r] |-> bucket[k]]
                 /\ Goto(r, "rm_in")
            ELSE /\ UNCHANGED bucket
                 /\ Goto(r, AfterFailure("delete"))
    /\ UNCHANGED <<job, idx, dirs, files, reported, raised, exitStatus,
                   ffmpeg_cmd, objects_to_delete>>

\* Lines 115-121: the handler prints the error and calls sys.exit(1); the
\* finally clause runs before the process exits.
Except(r) ==
    /\ pc[r] = "except"
    /\ raised' = [raised EXCEPT ![r] = TRUE]
    /\ Goto(r, "rm_in")
    /\ UNCHANGED <<job, idx, dirs, files, bucket, log, reported,
                   exitStatus, ffmpeg_cmd, objects_to_delete>>

\* Line 123: if os.path.exists(input_dir): shutil.rmtree(input_dir)
RemoveInputDir(r) ==
    /\ pc[r] = "rm_in"
    /\ IF InputDir(r) \in dirs THEN RmTree(InputDir(r)) ELSE UNCHANGED <<dirs, files>>
    /\ Goto(r, "rm_out")
    /\ UNCHANGED <<job, idx, bucket, log, reported, raised, exitStatus,
                   ffmpeg_cmd, objects_to_delete>>

\* Line 124: if os.path.exists(output_dir): shutil.rmtree(output_dir)
RemoveOutputDir(r) ==
    /\ pc[r] = "rm_out"
    /\ IF OutputDir(r) \in dirs THEN RmTree(OutputDir(r)) ELSE UNCHANGED <<dirs, files>>
    /\ Goto(r, "exit")
    /\ UNCHANGED <<job, idx, bucket, log, reported, raised, exitStatus,
                   ffmpeg_cmd, objects_to_delete>>

\* The process ends: with status 1 when sys.exit(1) is pending (line 121),
\* with status 0 when process_job returned.
Exit(r) ==
    /\ pc[r] = "exit"
    /\ Goto(r, "exited")
    /\ exitStatus' = [exitStatus EXCEPT ![r] = IF raised[r] THEN ExitFailure ELSE ExitSuccess]
    /\ UNCHANGED <<job, idx, dirs, files, bucket, log, reported, raised,
                   ffmpeg_cmd, objects_to_delete>>

----------------------------------------------------------------------------
\* The filter graph of lines 52-98 and the encoder that executes it.
\* Times are in milliseconds, zoom factors in thousandths.

\* framerate = 24 (line 49); fade_duration = 0.5 (line 61)
framerate == 24
fade_duration == 500
\* z='min(zoom+0.001,1.2)' (line 74)
ZoomIncrement == 1
ZoomMax == 1200
\* The zoom variable when zoompan takes a new input frame.
ZoomBase == 1000
\* Frames per second of a looped still image ('-loop 1 -i', line 54) and of
\* zoompan's output (line 74), neither set by the command: the encoder's
\* default of 25 for both.
ImageFps == 25
ZoompanFps == 25

MsPerSecond == 1000

Min(a, b) == IF a < b THEN a ELSE b
Max(a, b) == IF a > b THEN a ELSE b

\* total_frames = int(duration * framerate) (line 62)
total_frames(duration) == (duration * framerate) \div MsPerSecond

\* fade=out:st={duration - fade_duration} (line 75)
FadeOutStart(duration) == duration - fade_duration

\* z='min(zoom+0.001,1.2)': the zoom of a frame from the zoom variable.
ZoomExpr(zoom) == Min(zoom + ZoomIncrement, ZoomMax)

\* trim=duration={duration} (line 73) on the looped image: the frames whose
\* timestamp is below duration.
TrimFrames(duration) == (duration * ImageFps + MsPerSecond - 1) \div MsPerSecond

\* The parameters of scene i's chains (lines 73-77).
SceneChains(duration) ==
    [trim         |-> duration,
     zoompan_d    |-> total_frames(duration),
     fade_in_st   |-> 0,
     fade_in_d    |-> fade_duration,
     fade_out_st  |-> FadeOutStart(duration),
     fade_out_d   |-> fade_duration]

RECURSIVE Sum(_)
Sum(seq) == IF seq = <<>> THEN 0 ELSE seq[1] + Sum(Tail(seq))

\* The scene durations a job can carry; the audio clip of a scene plays for
\* the scene's duration (the front end measures it, src/app.py line 118).
MaxEncScenes == 2
DurationChoices == {400, 1000, 2000, 3000, 9000}

\* The lengths a music track can have, in ms.
MusicChoices == {300, 5000, 20000}

\* The audio stream of the output: its length and the gain at which the
\* music is in it (0 when there is none).
NoAudio == [ms |-> 0, music_volume |-> 0]

NotStarted == [scene |-> 0, in_frame |-> 0, k |-> 0, zoom |-> ZoomBase,
               pzoom |-> ZoomBase, f |-> 0, shown |-> <<>>, state |-> "idle",
               duration |-> 0, audio |-> NoAudio]

\* Length of the output written so far, one frame per 1/ZoompanFps second.
VideoMs(frames) == (frames * MsPerSecond) \div ZoompanFps

InitEnc ==
    /\ scene_durations \in UNION {[1..n -> DurationChoices] : n \in 1..MaxEncScenes}
    /\ filter_chains = <<>>
    /\ bg_music \in {Absent} \cup {Some(ms) : ms \in MusicChoices}
    /\ enc = NotStarted

IdleEnc ==
    /\ scene_durations = <<>>
    /\ filter_chains = <<>>
    /\ bg_music = Absent
    /\ enc = NotStarted

\* Lines 52-82: one group of chains per scene, then the concatenation.
BuildFilterChains ==
    /\ enc.state = "idle"
    /\ scene_durations # <<>>
    /\ filter_chains' = [i \in DOMAIN scene_durations |-> SceneChains(scene_durations[i])]
    /\ enc' = [enc EXCEPT !.state = "running", !.scene = 1,
                          !.shown = [i \in DOMAIN scene_durations |-> 0]]
    /\ UNCHANGED <<scene_durations, bg_music>>

\* The length of the stream amix gives for a first input of length first
\* and a second of length second, under each of its duration policies.
Amix(policy, first, second) ==
    CASE policy = "first" -> first
      [] policy = "shortest" -> Min(first, second)
      [] policy = "longest" -> Max(first, second)

\* The audio stream mapped into the output (lines 87-94): [maina], the
\* concatenated dialogue, which ends after the sum of the clips' lengths;
\* with music [outa], the mix of [maina] and the attenuated music.
OutputAudio ==
    IF bg_music = Absent
    THEN [ms |-> Sum(scene_durations), music_volume |-> 0]
    ELSE [ms |-> Amix(AmixDuration, Sum(scene_durations), bg_music[1]),
          music_volume |-> MusicVolume]

\* The output ends with its shortest stream (-shortest, line 98).
AudioEnded == VideoMs(Sum(enc.shown)) >= OutputAudio.ms

\* Scene i's video chain has given all its frames: zoompan gave zoompan_d
\* frames for each frame that passed the trim.
ChainEnded(i) == enc.in_frame >= TrimFrames(filter_chains[i].trim)

\* The encoder writes the next video frame: concat takes it from the chain
\* of the current scene.  zoompan gives d output frames per input frame,
\* starts each input frame with the zoom variable at 1, and evaluates z
\* once per output frame.
RenderFrame ==
    /\ enc.state = "running"
    /\ ~AudioEnded
    /\ enc.scene <= Len(filter_chains)
    /\ ~ChainEnded(enc.scene)
    /\ LET c == filter_chains[enc.scene]
           zvar == IF enc.k = 0 THEN ZoomBase ELSE enc.zoom
           last == enc.k + 1 >= c.zoompan_d
       IN  enc' = [enc EXCEPT
                     !.zoom = ZoomExpr(zvar),
                     !.pzoom = enc.zoom,
                     !.k = IF last THEN 0 ELSE enc.k + 1,
                     !.in_frame = IF last THEN enc.in_frame + 1 ELSE enc.in_frame,
                     !.f = enc.f + 1,
                     !.shown = [enc.shown EXCEPT ![enc.scene] = @ + 1]]
    /\ UNCHANGED <<scene_durations, filter_chains, bg_music>>

\* concat moves to the next scene's chain when the current one has ended.
NextSegment ==
    /\ enc.state = "running"
    /\ ~AudioEnded
    /\ enc.scene <= Len(filter_chains)
    /\ ChainEnded(enc.scene)
    /\ enc' = [enc EXCEPT !.scene = enc.scene + 1, !.in_frame = 0, !.k = 0,
                          !.f = 0, !.zoom = ZoomBase, !.pzoom = ZoomBase]
    /\ UNCHANGED <<scene_durations, filter_chains, bg_music>>

\* The encoder closes the output when a stream has ended.
FinishOutput ==
    /\ enc.state = "running"
    /\ AudioEnded \/ enc.scene > Len(filter_chains)
    /\ enc' = [enc EXCEPT !.state = "done",
                          !.duration = Min(VideoMs(Sum(enc.shown)), OutputAudio.ms),
                          !.audio = [OutputAudio EXCEPT
                                       !.ms = Min(VideoMs(Sum(enc.shown)), @)]]
    /\ UNCHANGED <<scene_durations, filter_chains, bg_music>>

----------------------------------------------------------------------------
\* The caption of a scene (lines 59-60) and the text argument of drawtext
\* it is embedded in (line 76).  A text is a sequence of characters.

Quote == "'"
Colon == ":"
Percent == "%"
Comma == ","
Backslash == "\\"
\* U+2019, the character line 60 puts in place of a single quote.
RightQuote == "U+2019"
Letter == "a"

MaxCaptionLen == 3
Alphabet == {Quote, Colon, Percent, Comma, Backslash, Letter}
Texts == UNION {[1..n -> Alphabet] : n \in 0..MaxCaptionLen}

NotBuilt == <<"not built">>
NotDrawn == [ok |-> FALSE, text |-> <<"not drawn">>]

\* str.replace(old, new) for a one-character old.
RECURSIVE Replace(_, _, _)
Replace(text, old, new) ==
    IF text = <<>> THEN <<>>
    ELSE (IF text[1] = old THEN new ELSE <<text[1]>>) \o Replace(Tail(text), old, new)

\* Line 60.
Sanitize(text) ==
    Replace(Replace(Replace(Replace(text,
        Quote, <<RightQuote>>),
        Colon, <<Backslash, Colon>>),
        Percent, <<Percent, Percent>>),
        Comma, <<Backslash, Comma>>)

\* The value of the text option as the filter reads it from
\* text='{safe_caption}': the quotes end at the first single quote, the
\* option value ends at the first colon no backslash precedes, and a
\* backslash makes the next character literal and is dropped.
RECURSIVE OptionValue(_)
OptionValue(arg) ==
    IF arg = <<>> THEN [ok |-> TRUE, text |-> <<>>]
    ELSE IF arg[1] \in {Quote, Colon} THEN [ok |-> FALSE, text |-> <<>>]
    ELSE IF arg[1] = Backslash /\ Len(arg) >= 2
         THEN LET rest == OptionValue(Tail(Tail(arg)))
              IN  [ok |-> rest.ok, text |-> <<arg[2]>> \o rest.text]
    ELSE LET rest == OptionValue(Tail(arg))
         IN  [ok |-> rest.ok, text |-> <<arg[1]>> \o rest.text]

\* drawtext's expansion of the option value: a backslash makes the next
\* character literal, and a percent sign must open a %{...} function.
RECURSIVE Expand(_)
Expand(value) ==
    IF value = <<>> THEN [ok |-> TRUE, text |-> <<>>]
    ELSE IF value[1] = Backslash /\ Len(value) >= 2
         THEN LET rest == Expand(Tail(Tail(value)))
              IN  [ok |-> rest.ok, text |-> <<value[2]>> \o rest.text]
    ELSE IF value[1] = Percent THEN [ok |-> FALSE, text |-> <<>>]
    ELSE LET rest == Expand(Tail(value))
         IN  [ok |-> rest.ok, text |-> <<value[1]>> \o rest.text]

\* What the overlay shows for text='{caption}'.
Drawn(caption) ==
    LET value == OptionValue(caption)
    IN  IF value.ok THEN Expand(value.text) ELSE [ok |-> FALSE, text |-> <<>>]

InitCap ==
    /\ dialogue_text \in Texts
    /\ safe_caption = NotBuilt
    /\ shown_text = NotDrawn

IdleCap ==
    /\ dialogue_text = <<>>
    /\ safe_caption = NotBuilt
    /\ shown_text = NotDrawn

\* Lines 59-60
BuildCaption ==
    /\ safe_caption = NotBuilt
    /\ safe_caption' = Sanitize(dialogue_text)
    /\ UNCHANGED <<dialogue_text, shown_text>>

\* Line 76, executed by the encoder
DrawCaption ==
    /\ safe_caption # NotBuilt
    /\ shown_text = NotDrawn
    /\ shown_text' = Drawn(safe_caption)
    /\ UNCHANGED <<dialogue_text, safe_caption>>

----------------------------------------------------------------------------
\* The front end's handler of /generate-video (src/app.py, lines 126-188),
\* from the generated scene assets to the response.

MaxFrontScenes == 3

\* None, and the handler's response before it returns.
None == Absent
NoResponse == "none"

\* job_id = str(uuid.uuid4()), line 132
job_id == FrontEndId(1)

\* upload_to_s3 (lines 33-42): the url when upload_file succeeded, None
\* when it raised; the client of line 34 is created outside the try block,
\* so an exception there leaves upload_to_s3.
UploadOutcomes == {"stored", "none", "raised"}

UrlOf(key) == [host |-> "bucket", path |-> key]

\* The effect of upload_to_s3(file, key) with outcome o on the storage and
\* on the record of failed uploads.
UploadToS3(key, o) ==
    /\ bucket' = IF o = "stored"
                 THEN [k \in DOMAIN bucket \cup {key} |->
                          IF k = key THEN Original(key) ELSE bucket[k]]
                 ELSE bucket
    /\ failed' = IF o = "stored" THEN failed ELSE failed \cup {key}

\* What upload_to_s3 returns.
Returned(key, o) == IF o = "stored" THEN Some(UrlOf(key)) ELSE None

InitFront ==
    /\ form \in [scenes : 0..MaxFrontScenes, music : BOOLEAN]
    /\ fpc = "generate"
    /\ scene_no = 0
    /\ image_url = None
    /\ scene_urls = <<>>
    /\ bg_music_url = None
    /\ job_data = Absent
    /\ failed = {}
    /\ dispatched = {}
    /\ response = NoResponse

IdleFront ==
    /\ form = [scenes |-> 0, music |-> FALSE]
    /\ fpc = "idle"
    /\ scene_no = 0
    /\ image_url = None
    /\ scene_urls = <<>>
    /\ bg_music_url = None
    /\ job_data = Absent
    /\ failed = {}
    /\ dispatched = {}
    /\ response = NoResponse

\* The statement after the loop of lines 157-162.
AfterUploads == "music"
AfterSceneUpload == IF scene_no + 1 < form.scenes THEN "upload_image" ELSE AfterUploads

\* Lines 128-155: the script and the assets of each scene are generated;
\* any exception leads to the except clause of line 185.
GenerateAssets ==
    /\ fpc = "generate"
    /\ \E o \in Outcomes :
         fpc' = IF o = "error" THEN "except"
                ELSE IF form.scenes > 0 THEN "upload_image" ELSE AfterUploads
    /\ UNCHANGED <<form, scene_no, image_url, scene_urls, bg_music_url, job_data,
                   failed, dispatched, response, bucket>>

\* Line 159
UploadSceneImage ==
    /\ fpc = "upload_image"
    /\ \E o \in UploadOutcomes :
         /\ UploadToS3(SceneImageKey(job_id, scene_no), o)
         /\ image_url' = Returned(SceneImageKey(job_id, scene_no), o)
         /\ fpc' = IF o = "raised" THEN "except" ELSE "upload_audio"
    /\ UNCHANGED <<form, scene_no, scene_urls, bg_music_url, job_data, dispatched,
                   response>>

\* Lines 160-162: the audio upload, the test of the two urls, and the
\* scene added to scene_urls.
UploadSceneAudio ==
    /\ fpc = "upload_audio"
    /\ \E o \in UploadOutcomes :
         LET audio_url == Returned(SceneAudioKey(job_id, scene_no), o)
         IN  /\ UploadToS3(SceneAudioKey(job_id, scene_no), o)
             /\ IF o = "raised" \/ image_url = None \/ audio_url = None
                THEN /\ fpc' = "except"
                     /\ UNCHANGED <<scene_urls, scene_no>>
                ELSE /\ scene_urls' = Append(scene_urls,
                                              [image_url |-> image_url[1],
                                               audio_url |-> audio_url[1]])
                     /\ scene_no' = scene_no + 1
                     /\ fpc' = AfterSceneUpload
    /\ UNCHANGED <<form, image_url, bg_music_url, job_data, dispatched, response>>

\* Lines 164-169: the music, when the request carries a file.
UploadMusic ==
    /\ fpc = "music"
    /\ IF form.music
       THEN \E o \in UploadOutcomes :
               /\ UploadToS3(MusicKey(job_id), o)
               /\ bg_music_url' = Returned(MusicKey(job_id), o)
               /\ fpc' = IF o = "raised" THEN "except" ELSE "upload_job"
       ELSE /\ fpc' = "upload_job"
            /\ UNCHANGED <<bucket, failed, bg_music_url>>
    /\ UNCHANGED <<form, scene_no, image_url, scene_urls, job_data, dispatched,
                   response>>

\* Lines 171-174: the descriptor is written and uploaded.
UploadJob ==
    /\ fpc = "upload_job"
    /\ job_data' = Some([caption_settings |-> NoCaptionSettings,
                         job_id |-> Some(job_id),
                         scenes |-> Some(scene_urls),
                         background_music_url |-> bg_music_url])
    /\ \E o \in UploadOutcomes :
         /\ UploadToS3(JobKey(job_id), o)
         /\ fpc' = IF o = "raised" THEN "except" ELSE "dispatch"
    /\ UNCHANGED <<form, scene_no, image_url, scene_urls, bg_music_url, dispatched,
                   response>>

\* Lines 176-181: the dispatch request; raise_for_status raises when it
\* was not accepted.
Dispatch ==
    /\ fpc = "dispatch"
    /\ \E o \in Outcomes :
         IF o = "ok"
         THEN dispatched' = dispatched \cup {job_id} /\ fpc' = "return"
         ELSE UNCHANGED dispatched /\ fpc' = "except"
    /\ UNCHANGED <<form, scene_no, image_url, scene_urls, bg_music_url, job_data,
                   failed, response, bucket>>

\* Line 184
ReturnSubmitted ==
    /\ fpc = "return"
    /\ response' = "submitted"
    /\ fpc' = "done"
    /\ UNCHANGED <<form, scene_no, image_url, scene_urls, bg_music_url, job_data,
                   failed, dispatched, bucket>>

\* Lines 185-188
ReturnError ==
    /\ fpc = "except"
    /\ response' = "error"
    /\ fpc' = "done"
    /\ UNCHANGED <<form, scene_no, image_url, scene_urls, bg_music_url, job_data,
                   failed, dispatched, bucket>>

----------------------------------------------------------------------------
Next ==
    \/ \E r \in Runs : Fetch(r) /\ UNCHANGED <<encvars, capvars, frontvars>>
    \/ \E r \in Runs : MakeInputDir(r) /\ UNCHANGED <<encvars, capvars, frontvars>>
    \/ \E r \in Runs : MakeOutputDir(r) /\ UNCHANGED <<encvars, capvars, frontvars>>
    \/ \E r \in Runs : CreateClient(r) /\ UNCHANGED <<encvars, capvars, frontvars>>
    \/ \E r \in Runs : DownloadImage(r) /\ UNCHANGED <<encvars, capvars, frontvars>>
    \/ \E r \in Runs : DownloadAudio(r) /\ UNCHANGED <<encvars, capvars, frontvars>>
    \/ \E r \in Runs : DownloadMusic(r) /\ UNCHANGED <<encvars, capvars, frontvars>>
    \/ \E r \in Runs : Encode(r) /\ UNCHANGED <<encvars, capvars, frontvars>>
    \/ \E r \in Runs : Upload(r) /\ UNCHANGED <<encvars, capvars, frontvars>>
    \/ \E r \in Runs : ListInputs(r) /\ UNCHANGED <<encvars, capvars, frontvars>>
    \/ \E r \in Runs : DeleteInputs(r) /\ UNCHANGED <<encvars, capvars, frontvars>>
    \/ \E r \in Runs : Except(r) /\ UNCHANGED <<encvars, capvars, frontvars>>
    \/ \E r \in Runs : RemoveInputDir(r) /\ UNCHANGED <<encvars, capvars, frontvars>>
    \/ \E r \in Runs : RemoveOutputDir(r) /\ UNCHANGED <<encvars, capvars, frontvars>>
    \/ \E r \in Runs : Exit(r) /\ UNCHANGED <<encvars, capvars, frontvars>>

\* One run of the worker.
Init == InitCaptioned({1}, MaxScenes) /\ IdleEnc /\ IdleCap /\ IdleFront
Spec == Init /\ [][Next]_vars

\* One run of the worker on a descriptor with any asset URLs.
InitAssets == InitAssetJob /\ IdleEnc /\ IdleCap /\ IdleFront
SpecAssets == InitAssets /\ [][Next]_vars

\* Two runs of the worker at overlapping times, in one working directory.
InitPair == InitOver({1, 2}, MaxPairScenes) /\ IdleEnc /\ IdleCap /\ IdleFront
SpecPair == InitPair /\ [][Next]_vars

\* The encoder executing the filter graph of one job, with or without music.
InitEncoder == InitOver({}, 0) /\ InitEnc /\ IdleCap /\ IdleFront
NextEncoder ==
    \/ BuildFilterChains /\ UNCHANGED <<procvars, capvars, frontvars>>
    \/ RenderFrame /\ UNCHANGED <<procvars, capvars, frontvars>>
    \/ NextSegment /\ UNCHANGED <<procvars, capvars, frontvars>>
    \/ FinishOutput /\ UNCHANGED <<procvars, capvars, frontvars>>
SpecEncoder == InitEncoder /\ [][NextEncoder]_vars

\* One caption, sanitized and drawn.
InitCaption == InitOver({}, 0) /\ IdleEnc /\ InitCap /\ IdleFront
NextCaption ==
    \/ BuildCaption /\ UNCHANGED <<procvars, encvars, frontvars>>
    \/ DrawCaption /\ UNCHANGED <<procvars, encvars, frontvars>>
SpecCaption == InitCaption /\ [][NextCaption]_vars

\* One request to the front end, from the generated assets to the response.
InitFrontEnd == InitOver({}, 0) /\ IdleEnc /\ IdleCap /\ InitFront
NextFrontEnd ==
    \/ GenerateAssets /\ UNCHANGED <<workervars, encvars, capvars>>
    \/ UploadSceneImage /\ UNCHANGED <<workervars, encvars, capvars>>
    \/ UploadSceneAudio /\ UNCHANGED <<workervars, encvars, capvars>>
    \/ UploadMusic /\ UNCHANGED <<workervars, encvars, capvars>>
    \/ UploadJob /\ UNCHANGED <<workervars, encvars, capvars>>
    \/ Dispatch /\ UNCHANGED <<workervars, encvars, capvars>>
    \/ ReturnSubmitted /\ UNCHANGED <<workervars, encvars, capvars>>
    \/ ReturnError /\ UNCHANGED <<workervars, encvars, capvars>>
SpecFrontEnd == InitFrontEnd /\ [][NextFrontEnd]_vars

----------------------------------------------------------------------------
\* Properties of a run.

Exited(r) == pc[r] = "exited"
\* process_job was entered: the descriptor was fetched.
Entered(r) == Len(log[r]) > 0 /\ log[r][1].outcome = "ok"
Calls(r, op) == {k \in DOMAIN log[r] : log[r][k].op = op}
Failures(r) == {k \in DOMAIN log[r] : log[r][k].outcome # "ok"}
\* Every collaborator accepted every request made of it.
AllAccepted(r) == \A k \in DOMAIN log[r] : log[r][k].outcome # "error"

\* The descriptor has the shape the data model asks for: a job identifier
\* and at least one scene.
WellFormed(r) == job[r].job_id # Absent /\ Len(Scenes(r)) > 0

\* C1: when a run of process_job on a well-formed descriptor has ended,
\* with success or failure and whichever step failed, neither the input
\* nor the output working directory of the job exists.
C1_WorkingDirsRemovedAtEnd ==
    \A r \in Runs :
        WellFormed(r) /\ Exited(r) /\ Entered(r) =>
            InputDir(r) \notin dirs /\ OutputDir(r) \notin dirs

\* C2: a run on a well-formed descriptor in which every download succeeded, the encoder exited with
\* status zero and storage accepted every request ends with success, and
\* the object under the job's output key is the file the encoder wrote.
C2_HappyPathStoresEncodedVideo ==
    \A r \in Runs :
        WellFormed(r) /\ Exited(r) /\ AllAccepted(r) =>
            /\ exitStatus[r] = ExitSuccess
            /\ FinalVideoKey(r) \in DOMAIN bucket
            /\ bucket[FinalVideoKey(r)] = Encoded(r)

\* C3: a failed step is the last step of its run: no step follows it, no
\* step is made twice, and a run with a failed step ends with a failure
\* status.
C3_FailureIsTerminal ==
    \A r \in Runs :
        /\ \A k \in Failures(r) : k = Len(log[r])
        /\ \A k1, k2 \in DOMAIN log[r] :
              log[r][k1].op = log[r][k2].op /\ log[r][k1].i = log[r][k2].i => k1 = k2
        /\ Exited(r) /\ Failures(r) # {} => exitStatus[r] = ExitFailure

\* A run ended after a download failed, and one after the encoder failed.
C3_Witness ==
    \E r \in Runs :
        /\ Exited(r) /\ exitStatus[r] = ExitFailure
        /\ Len(log[r]) > 0
        /\ log[r][Len(log[r])].op \in {"download_audio", "encode"}
        /\ log[r][Len(log[r])].outcome = "error"
        /\ log[r][Len(log[r])].op = "download_audio" => log[r][Len(log[r])].i = 1

\* C4: a run on a well-formed descriptor that ends with a failure status
\* has uploaded no final video and has reported no success.
C4_SingleTerminalStatus ==
    \A r \in Runs :
        WellFormed(r) /\ exitStatus[r] = ExitFailure =>
            ~reported[r] /\ FinalVideoKey(r) \notin DOMAIN bucket

\* C5: a descriptor with an empty or absent scene list is rejected before
\* rendering: the encoder is never invoked for it and the run ends with a
\* failure status.
C5_EmptySceneListRejected ==
    \A r \in Runs :
        Len(Scenes(r)) = 0 =>
            /\ Calls(r, "encode") = {}
            /\ Exited(r) => exitStatus[r] = ExitFailure

\* The run holds its working directories: created, not yet removed.
Working(r) == pc[r] \notin {"fetch", "makedirs_in", "makedirs_out", "rm_in",
                            "rm_out", "exit", "exited"}
WorkingDirs(r) == {InputDir(r), OutputDir(r)}

\* C6: two runs at overlapping times never share a working directory, and
\* the files a run has downloaded are there when its encoder starts,
\* whatever the other run does.
C6_WorkingDirsDistinct ==
    \A r1, r2 \in Runs :
        /\ r1 # r2 /\ Working(r1) /\ Working(r2) => WorkingDirs(r1) \cap WorkingDirs(r2) = {}
        /\ pc[r1] = "encode" => Encodable(BuildCommand(r1))

----------------------------------------------------------------------------
\* Properties of the filter graph and of the encoder's output.

Abs(x) == IF x < 0 THEN -x ELSE x
\* Two times differ by at most one frame, 1/framerate second.
WithinOneFrame(a, b) == Abs(a - b) * framerate <= MsPerSecond

\* C7: for every scene, also one shorter than twice the fade length, the
\* fade-out start offset is max(0, duration - fade_duration), so it is
\* never negative, and no fade has a negative length.
C7_FadeOutStartClamped ==
    \A i \in DOMAIN filter_chains :
        /\ filter_chains[i].fade_out_st = Max(0, scene_durations[i] - fade_duration)
        /\ filter_chains[i].fade_out_st >= 0
        /\ filter_chains[i].fade_in_d >= 0
        /\ filter_chains[i].fade_out_d >= 0

\* C8: the zoom of frame f of a scene's clip (0 <= f < duration*framerate)
\* is min(1.0 + f*rate, 1.2): it starts at 1.0, never exceeds 1.2 and is
\* never below the zoom of the frame before.
C8_ZoomMonotoneClosedForm ==
    enc.state = "running" /\ enc.f > 0 =>
        LET f == enc.f - 1
        IN  f * MsPerSecond < scene_durations[enc.scene] * framerate =>
              /\ enc.zoom = Min(ZoomBase + f * ZoomIncrement, ZoomMax)
              /\ enc.zoom <= ZoomMax
              /\ f = 0 => enc.zoom = ZoomBase
              /\ f > 0 => enc.zoom >= enc.pzoom

\* The caption holds one of the four delimiters with no escape before it
\* (a backslash escapes the next character, a doubled percent sign is an
\* escaped percent sign).
RECURSIVE HasBareDelimiter(_)
HasBareDelimiter(caption) ==
    IF caption = <<>> THEN FALSE
    ELSE IF caption[1] = Backslash /\ Len(caption) >= 2
         THEN HasBareDelimiter(Tail(Tail(caption)))
    ELSE IF caption[1] = Percent /\ Len(caption) >= 2 /\ caption[2] = Percent
         THEN HasBareDelimiter(Tail(Tail(caption)))
    ELSE IF caption[1] \in {Quote, Colon, Percent, Comma} THEN TRUE
    ELSE HasBareDelimiter(Tail(caption))

\* C9: for every text over an alphabet with the four delimiters and the
\* backslash, the sanitized caption holds none of the four delimiters
\* unescaped, and the overlay shows the original line.
C9_CaptionEscapedAndShown ==
    shown_text # NotDrawn =>
        /\ ~HasBareDelimiter(safe_caption)
        /\ shown_text.ok
        /\ shown_text.text = dialogue_text

\* C10: without music, the final video lasts the sum of the scenes'
\* durations within one frame, and each scene contributes a video segment
\* of its own duration within one frame.
C10_DurationIsSumOfScenes ==
    enc.state = "done" /\ bg_music = Absent =>
        /\ WithinOneFrame(enc.duration, Sum(scene_durations))
        /\ \A i \in DOMAIN scene_durations :
              WithinOneFrame(VideoMs(enc.shown[i]), scene_durations[i])

----------------------------------------------------------------------------
\* Properties of the command the worker builds and of the order of its
\* steps.

\* The run has built its command (it reached subprocess.run, line 100).
Built(r) == Calls(r, "encode") # {}

\* The filter graph is wired in list order: for every scene, the video
\* chain reads the input that is the scene's own image and the audio chain
\* reads the input that is the scene's own audio clip, and the
\* concatenation lists the scenes' streams in the order of the scene list.
GraphInSceneOrder ==
    \A r \in Runs :
        Built(r) =>
            LET cmd == ffmpeg_cmd[r]
            IN  /\ DOMAIN cmd.chains = DOMAIN Scenes(r)
                /\ DOMAIN cmd.concat.video = DOMAIN Scenes(r)
                /\ DOMAIN cmd.concat.audio = DOMAIN Scenes(r)
                /\ \A i \in DOMAIN Scenes(r) :
                      /\ cmd.chains[i].video_in + 1 \in DOMAIN cmd.inputs
                      /\ cmd.chains[i].audio_in + 1 \in DOMAIN cmd.inputs
                      /\ cmd.inputs[cmd.chains[i].video_in + 1] = LocalImagePath(r, i)
                      /\ cmd.inputs[cmd.chains[i].audio_in + 1] = LocalAudioPath(r, i)
                      /\ cmd.concat.video[i] = cmd.chains[i].v_out
                      /\ cmd.concat.audio[i] = cmd.chains[i].a_out
                /\ \A i, j \in DOMAIN Scenes(r) :
                      i # j => /\ cmd.chains[i].v_out # cmd.chains[j].v_out
                               /\ cmd.chains[i].a_out # cmd.chains[j].a_out

\* In the output written so far: the time at which the video of the first
\* i scenes ends, and the time at which their audio ends (where the audio
\* of scene i+1 starts).
VideoEndOf(i) == VideoMs(Sum(SubSeq(enc.shown, 1, i)))
AudioEndOf(i) == Sum(SubSeq(scene_durations, 1, i))

\* In the encoder's output, no frame of a later scene is written before the
\* segment in progress, and the video of a scene that has a successor ends,
\* within one frame, no later than the successor's audio starts.
ContentBeforeNextScene ==
    enc.state \in {"running", "done"} =>
        /\ \A i \in DOMAIN enc.shown : i > enc.scene => enc.shown[i] = 0
        /\ \A i \in DOMAIN enc.shown :
              i < Len(enc.shown) =>
                  (VideoEndOf(i) - AudioEndOf(i)) * framerate <= MsPerSecond

\* C11: concatenation preserves scene order: every scene's chains read the
\* scene's own image and audio inputs, and in the final artifact the video
\* and audio content of scene i comes strictly before that of scene i+1,
\* in the order of the job's scene list.
C11_ConcatPreservesSceneOrder == GraphInSceneOrder /\ ContentBeforeNextScene

\* C13: every scene's caption is drawn with the same options, taken from
\* the job's caption settings: the font size and the colour are the job's
\* (the defaults 35 and #FFFFFF for an entry the job leaves out), the text
\* is centred horizontally, and the vertical position is near the top for
\* top, centred for middle and near the bottom for bottom (and for a job
\* that names no position).
C13_CaptionSettingsUniform ==
    \A r \in Runs :
        Built(r) =>
            LET settings == job[r].caption_settings
                chains == ffmpeg_cmd[r].chains
            IN  /\ DOMAIN chains = DOMAIN Scenes(r)
                /\ \A i \in DOMAIN chains :
                      LET d == chains[i].drawtext
                      IN  /\ settings.size # Absent => d.fontsize = settings.size[1]
                          /\ settings.size = Absent => d.fontsize = DefaultFontSize
                          /\ settings.color # Absent => d.fontcolor = settings.color[1]
                          /\ settings.color = Absent => d.fontcolor = DefaultFontColor
                          /\ settings.position = Some("top") => d.y = NearTop
                          /\ settings.position = Some("middle") => d.y = Centred
                          /\ settings.position = Some("bottom") => d.y = NearBottom
                          /\ settings.position = Absent => d.y = NearBottom
                /\ \A i, j \in DOMAIN chains : chains[i].drawtext = chains[j].drawtext

\* A run built the command of a two-scene job that asks for large red
\* captions at the top.
C13_Witness ==
    \E r \in Runs :
        /\ Built(r)
        /\ Len(Scenes(r)) = 2
        /\ job[r].caption_settings =
              CaptionSettings(Some("top"), Some(LargeSize), Some("#FF0000"))
        /\ ffmpeg_cmd[r].chains[2].drawtext.y = NearTop
        /\ ffmpeg_cmd[r].chains[2].drawtext.fontsize = LargeSize

\* Call k of the run's log is a call of op for scene i that succeeded.
Succeeded(r, k, op, i) ==
    log[r][k].op = op /\ log[r][k].i = i /\ log[r][k].outcome = "ok"

\* C14: the command of a job with N scenes holds N groups of per-scene
\* chains, one concatenation over all N of them, and a mix if and only if
\* the job has background music; the encoder is started only after the
\* image and the audio of every scene, and the music if any, have been
\* downloaded; and the upload is started only after the encoder has exited
\* with status zero.
C14_StagesInOrder ==
    \A r \in Runs :
        /\ Built(r) =>
              LET cmd == ffmpeg_cmd[r]
              IN  /\ Len(cmd.chains) = Len(Scenes(r))
                  /\ cmd.concat.n = Len(Scenes(r))
                  /\ Len(cmd.concat.video) = Len(Scenes(r))
                  /\ Len(cmd.concat.audio) = Len(Scenes(r))
                  /\ cmd.mix # Absent <=> HasMusic(r)
                  /\ cmd.map_audio = (IF HasMusic(r) THEN "[outa]" ELSE "[maina]")
                  /\ Len(cmd.inputs) = 2 * Len(Scenes(r)) + (IF HasMusic(r) THEN 1 ELSE 0)
        /\ \A k \in Calls(r, "encode") :
              /\ \A i \in DOMAIN Scenes(r) :
                    /\ \E d \in 1..(k - 1) : Succeeded(r, d, "download_image", i)
                    /\ \E d \in 1..(k - 1) : Succeeded(r, d, "download_audio", i)
              /\ HasMusic(r) => \E d \in 1..(k - 1) : Succeeded(r, d, "download_music", 0)
        /\ \A k \in Calls(r, "upload") :
              \E e \in 1..(k - 1) : Succeeded(r, e, "encode", 0)

\* A run on a job of two scenes with music reached the upload.
C14_Witness ==
    \E r \in Runs :
        /\ Len(Scenes(r)) = 2
        /\ HasMusic(r)
        /\ Calls(r, "upload") # {}
        /\ ffmpeg_cmd[r].mix # Absent
        /\ ffmpeg_cmd[r].concat.n = 2

\* The assets of run r's job: the local path each is downloaded to and the
\* URL it is downloaded from.
Assets(r) ==
    {[path |-> LocalImagePath(r, i), url |-> Scenes(r)[i].image_url, scene |-> i] :
        i \in DOMAIN Scenes(r)}
    \cup {[path |-> LocalAudioPath(r, i), url |-> Scenes(r)[i].audio_url, scene |-> i] :
        i \in DOMAIN Scenes(r)}
    \cup (IF HasMusic(r)
          THEN {[path |-> LocalBgMusicPath(r), url |-> job[r].background_music_url[1],
                 scene |-> 0]}
          ELSE {})

\* C15: for every descriptor, whatever its asset URLs, assets of two
\* distinct scenes, or of a scene and the music, that are different objects
\* are stored at different local paths, and when the encoder is about to
\* run every local file holds the object that was downloaded for it.
C15_ScenesReadOwnAssets ==
    \A r \in Runs :
        /\ \A a1, a2 \in Assets(r) :
              a1.scene # a2.scene /\ a1.url # a2.url => a1.path # a2.path
        /\ pc[r] = "encode" =>
              \A a \in Assets(r) :
                  /\ a.path \in DOMAIN files
                  /\ files[a.path] = Original(UrlKey(a.url))

\* The input objects the front end stored for run r's job.
InputObjects(r) == StoredFor(r, job[r]) \ {JobKey(FrontEndId(r))}

\* The run's upload of the final video succeeded.
Uploaded(r) == \E k \in Calls(r, "upload") : log[r][k].outcome = "ok"

\* C16: the input objects of a job are listed and deleted only after the
\* upload of the final video has succeeded: while no upload has succeeded
\* every input object is in storage, and so it is at the end of every run
\* that failed before or during the upload.
C16_InputsDeletedOnlyAfterUpload ==
    \A r \in Runs :
        /\ ~Uploaded(r) => InputObjects(r) \subseteq DOMAIN bucket
        /\ \A k \in Calls(r, "list") \cup Calls(r, "delete") :
              \E u \in 1..(k - 1) : Succeeded(r, u, "upload", 0)
        /\ Exited(r) /\ ~Uploaded(r) =>
              \A key \in InputObjects(r) :
                  key \in DOMAIN bucket /\ bucket[key] = Original(key)

\* A run on a job of two scenes with music ended after its upload failed.
C16_Witness ==
    \E r \in Runs :
        /\ Exited(r)
        /\ exitStatus[r] = ExitFailure
        /\ Len(Scenes(r)) = 2 /\ HasMusic(r)
        /\ Calls(r, "upload") # {}
        /\ ~Uploaded(r)
        /\ InputObjects(r) \subseteq DOMAIN bucket

----------------------------------------------------------------------------
\* Properties of the mixed output.

\* C12: with a music track at least as long as the total dialogue, the
\* final video lasts exactly the total dialogue and the music is in it at
\* gain 0.2; without music the output audio is the concatenated dialogue,
\* of the dialogue's length and with nothing mixed in.
C12_MusicNeverExtendsOutput ==
    enc.state = "done" =>
        /\ bg_music # Absent /\ bg_music[1] >= Sum(scene_durations) =>
              /\ enc.duration = Sum(scene_durations)
              /\ enc.audio = [ms |-> Sum(scene_durations), music_volume |-> MusicVolume]
        /\ bg_music = Absent =>
              enc.audio = [ms |-> Sum(scene_durations), music_volume |-> 0]

\* An output was finished for a job whose music is longer than its
\* dialogue.
C12_Witness ==
    /\ enc.state = "done"
    /\ bg_music # Absent
    /\ bg_music[1] > Sum(scene_durations)
    /\ Len(scene_durations) = 2
    /\ enc.duration = Sum(scene_durations)

----------------------------------------------------------------------------
\* Properties of the front end.

\* Everything the worker needs for the request's job.
Needed ==
    {JobKey(job_id)}
    \cup {SceneImageKey(job_id, i) : i \in 0..(form.scenes - 1)}
    \cup {SceneAudioKey(job_id, i) : i \in 0..(form.scenes - 1)}
    \cup (IF form.music THEN {MusicKey(job_id)} ELSE {})

\* C17: when the dispatch for a job has been sent, the job's descriptor,
\* every scene's image and audio and the music (when a file was supplied)
\* are in storage; and when any upload failed, no dispatch is sent and the
\* request returns an error.
C17_DispatchOnlyAfterEverythingStored ==
    /\ job_id \in dispatched => Needed \subseteq DOMAIN bucket
    /\ failed # {} => /\ dispatched = {}
                      /\ response # NoResponse => response = "error"

====
